---- MODULE Spec2Model ----
(***************************************************************************)
(* Three models of the parametric-map plugin family as state machines.     *)
(*                                                                         *)
(* Model 6 (CBV baseline integral): the one-time calibration M6_ModelInit, *)
(* the per-voxel pipeline M6_ModelFunc with its bolus detector             *)
(* FindBolusPosition, and M6_ModelClose, over the module statics of        *)
(* src/Model6.cpp, the host globals the module reads, and a record of the  *)
(* most recent call into the module (its arguments, locals and result):    *)
(* Spec, and SpecSeq for sequences of voxels.                              *)
(* Model 5 (time of active rise, src/Model5.cpp): SpecM5.                  *)
(* Model 0 (basic measurements, src/Model0.cpp): SpecM0.                   *)
(*                                                                         *)
(* Doubles are exact rationals <<n, d>> in lowest terms; d = 0 encodes the *)
(* IEEE specials (<<1,0>> = +Inf, <<-1,0>> = -Inf, <<0,0>> = NaN).         *)
(* A standard deviation is carried as the rational it is the root of, and  *)
(* a concentration -ln(r) as its argument r, so every comparison and every *)
(* sum the code makes is computed exactly.                                 *)
(***************************************************************************)
EXTENDS Integers, Sequences, FiniteSets

\* ---------------------------------------------------------------- bounds
\* Frames per curve of the series the host loads.
MaxNumTms == 5

\* ------------------------------------------------------- program constants
PASS_START == 2

\* -------------------------------------------------------------- rationals
Abs(x) == IF x < 0 THEN -x ELSE x

Sgn(x) == IF x > 0 THEN 1 ELSE IF x < 0 THEN -1 ELSE 0

RECURSIVE Gcd(_, _)
Gcd(a, b) == IF b = 0 THEN a ELSE Gcd(b, a % b)

Rat(n, d) ==
    IF d = 0 THEN <<Sgn(n), 0>>
    ELSE LET g == Gcd(Abs(n), Abs(d))
             s == Sgn(d)
         IN  <<(s * n) \div g, (s * d) \div g>>

D(i) == <<i, 1>>

ZERO == <<0, 1>>

ONE == <<1, 1>>

NaN == <<0, 0>>

IsFinite(a) == a[2] # 0

RAdd(a, b) ==
    IF a[2] = 0 /\ b[2] = 0
    THEN (IF a = b THEN a ELSE NaN)
    ELSE Rat(a[1] * b[2] + b[1] * a[2], a[2] * b[2])

RNeg(a) == <<-a[1], a[2]>>

RSub(a, b) == RAdd(a, RNeg(b))

RMul(a, b) == Rat(a[1] * b[1], a[2] * b[2])

RDiv(a, b) == Rat(a[1] * b[2], a[2] * b[1])

\* a < b as IEEE compares doubles: every comparison with NaN is false
RLt(a, b) ==
    IF a = NaN \/ b = NaN THEN FALSE
    ELSE IF a[2] = 0 /\ b[2] = 0 THEN a[1] < b[1]
    ELSE IF a[2] = 0 THEN a[1] < 0
    ELSE IF b[2] = 0 THEN b[1] > 0
    ELSE a[1] * b[2] < b[1] * a[2]

RGt(a, b) == RLt(b, a)

\* ---------------------------------------------------------------- curves
\* signal levels of a sample: a trough, an intermediate level, a plateau
Samples == {0, 1, 2}

\* a TAC of n frames, indexed from 0 as in the source
Curves(n) == [0 .. n - 1 -> Samples]

\* wTac = Tac + off, wNumTms samples long
Shift(Tac, off, n) == [t \in 0 .. n - 1 |-> Tac[t + off]]

RECURSIVE SumRange(_, _, _)
SumRange(f, lo, hi) == IF lo > hi THEN 0 ELSE f[lo] + SumRange(f, lo + 1, hi)

RECURSIVE SumSqRange(_, _, _)
SumSqRange(f, lo, hi) ==
    IF lo > hi THEN 0 ELSE f[lo] * f[lo] + SumSqRange(f, lo + 1, hi)

RECURSIVE MinRange(_, _, _)
MinRange(f, lo, hi) ==
    IF lo >= hi THEN f[lo]
    ELSE LET m == MinRange(f, lo + 1, hi) IN IF f[lo] < m THEN f[lo] ELSE m

Min2(a, b) == IF a < b THEN a ELSE b

\* ------------------------------------------- collaborators of the module
\* the series the host may load: the absolute frame times, the series-wide
\* noise estimate and whether the user asked for the model's output map
HostSeries(n) ==
    { [AbsTarr |-> [t \in 0 .. n - 1 |-> 10 + t], demp_NoiseLevel |-> ZERO,
       ParmReq |-> [i \in 0 .. 0 |-> FALSE]],
      [AbsTarr |-> [t \in 0 .. n - 1 |-> 3 + t + ((t * t) \div 2)],
       demp_NoiseLevel |-> Rat(1, 20), ParmReq |-> [i \in 0 .. 0 |-> TRUE]] }

\* FP[0] "Background Threshold" and FP[1] "Skip Initial Time Points"
FreeParms ==
    { [i \in 0 .. 1 |-> IF i = 0 THEN bg ELSE sk] :
        bg \in {D(20)}, sk \in {D(0), D(1), Rat(5, 2)} }

\* what an uninitialized double may hold
UninitDoubles == {ZERO, D(-1), D(2)}

\* a null PDOUBLE
NULL == [t \in {} |-> 0]

\* (int)x: conversion of a double to int truncates toward zero
Trunc(x) == Sgn(x[1]) * (Abs(x[1]) \div x[2])

\* relative time axis: the absolute one shifted to start at 0
PR_MakeRelativeArr(Abs_, n) == [t \in 0 .. n - 1 |-> Abs_[t] - Abs_[0]]

\* mean of Arr[off .. off + n - 1]
PR_ArrStats(Arr, off, n) == Rat(SumRange(Arr, off, off + n - 1), n)

\* the standard deviation PR_ArrStats stores through its third argument,
\* as its square: mean of squares minus square of the mean
PR_ArrStatsVar(Arr, off, n) ==
    Rat(n * SumSqRange(Arr, off, off + n - 1)
          - SumRange(Arr, off, off + n - 1) * SumRange(Arr, off, off + n - 1),
        n * n)

\* background classifier: the curve's minimum lies below the threshold
IsAir_ByMin(Tac, n, Thresh) == RLt(D(MinRange(Tac, 0, n - 1)), Thresh)

\* x > base - sqrt(sq)
GtCut(x, base, sq) ==
    LET d == RSub(base, x)
    IN  IF RLt(d, ZERO) THEN TRUE ELSE RLt(RMul(d, d), sq)

\* x < base - sqrt(sq)
LtCut(x, base, sq) ==
    LET d == RSub(base, x)
    IN  RGt(d, ZERO) /\ RLt(sq, RMul(d, d))

\* ------------------------------------------------------------------ state
VARIABLES
    pc,               \* where the host is: "loaded", "calibrated",
                      \* "recalibrated", "failed", "ready", "voxel_done",
                      \* "closed"
    NumTms,           \* host global: frames per curve
    AbsTarr,          \* host global: absolute frame times
    NumRoiTac,        \* host global: number of white-matter ROI curves
    M6_FreeParm,      \* the model's two free parameters
    demp_NoiseLevel,  \* host global: series-wide noise estimate
    ParmReq,          \* host global: which output maps are requested
    AirThresh,        \* static double
    WhiteMatterNorm,  \* static double
    SkipTimes,        \* static int
    wNumTms,          \* static int
    pre_N,            \* static int
    post_N,           \* static int
    Tarr,             \* static PDOUBLE
    call,             \* the most recent call into the module
    prev,             \* how the voxel before the current one ended: "none",
                      \* "rejected" or "accepted" (kept under SpecSeq)
    m0,               \* Model 0: its statics, free parameters and last call
    m5                \* Model 5: its statics, free parameters and last call

hostVars == <<NumTms, AbsTarr, NumRoiTac, M6_FreeParm, demp_NoiseLevel, ParmReq>>

statics == <<AirThresh, WhiteMatterNorm, SkipTimes, wNumTms, pre_N, post_N, Tarr>>

\* what Model 6 neither reads nor writes
others == <<m0, m5>>

vars == <<pc, hostVars, statics, call, prev, others>>

\* ------------------------------------------------------------ calibration
\* the curve M6_ModelInit scans: wTac = GlobalTac + PASS_START, wN samples.
\* inb holds the samples of GlobalTac it reads (GlobalTac[PASS_START ..
\* NumTms - 1]; the first PASS_START samples are never read), oob what lies
\* behind the NumTms-sample array where the scan runs past its end
CalTac(inb, oob, n, wN) ==
    [t \in 0 .. wN - 1 |->
        IF t + PASS_START < n THEN inb[t + PASS_START] ELSE oob[t + PASS_START]]

\* indices of GlobalTac the scan reads
CalReads(wN) == { t + PASS_START : t \in 0 .. wN - 1 }

RECURSIVE CalMinSi(_, _, _, _)
CalMinSi(wTac, wN, t, MinSi) ==
    IF t < wN THEN CalMinSi(wTac, wN, t + 1, Min2(MinSi, wTac[t])) ELSE MinSi

\* the pre-bolus threshold at none of the drop
PRE_N_THR_Zero == ZERO

PRE_N_THR == Rat(95, 100)

\* the post-bolus threshold at half the drop
POST_N_THR_Half == Rat(1, 2)

POST_N_THR == Rat(95, 100)

RECURSIVE CalPreN(_, _, _, _, _)
CalPreN(wTac, wN, MinSi, Thr, n) ==
    IF n < wN /\ ~RLt(D(wTac[n] - MinSi), Thr)
    THEN CalPreN(wTac, wN, MinSi, Thr, n + 1)
    ELSE n

RECURSIVE CalPostN(_, _, _, _, _)
CalPostN(wTac, wN, MinSi, Thr, n) ==
    IF n < wN /\ ~RLt(D(wTac[wN - 1 - n] - MinSi), Thr)
    THEN CalPostN(wTac, wN, MinSi, Thr, n + 1)
    ELSE n

\* the guard with its limit off by one
TooManyRoisOffByOne(n) == n > 2

\* the guard on the number of white-matter ROIs
TooManyRois(n) == n > 1

\* the factor left at ZERO
NormNoRoiZero == ZERO

\* the normalization factor when no ROI curve is supplied
NormNoRoi == ONE

\* the normalization factor with one ROI curve: ONE / Integral, where the
\* call that would fill Integral is commented out
NormOneRoi(Integral) == RDiv(ONE, Integral)

\* the white-matter ROI curves the host may supply (signed: M6_ModelInit
\* takes fabs of every sample)
RoiCurves(n) ==
    { [t \in 0 .. n - 1 |-> 9], [t \in 0 .. n - 1 |-> -9],
      [t \in 0 .. n - 1 |-> IF t = 1 THEN -1 ELSE 9] }

\* IsAir_ByMin( Tac,NumTms ): what the check of the ROI curve passes as the
\* classifier's second argument
RoiAirArg == D(NumTms)

\* IsAir_ByMin( Tac,AirThresh ): what the per-voxel check passes
VoxelAirArg == AirThresh

\* the samples of GlobalTac a run of M6_ModelInit may find in the array: any,
\* and on a second run over the same global curve those of the first run
GlobalSamples(lo, hi) ==
    IF pc = "calibrated"
    THEN { [t \in lo .. hi |-> call.wTac[t - PASS_START]] }
    ELSE [lo .. hi -> Samples]

\* the host calls M6_ModelInit when the series is loaded, and may call it once
\* more, on the same global curve, before the first voxel
M6_ModelInit ==
    /\ pc \in {"loaded", "calibrated"}
    /\ IF TooManyRois(NumRoiTac)
       THEN /\ pc' = "failed"
            /\ call' = [fn |-> "M6_ModelInit", res |-> FALSE, step |-> "rois",
                        wTac |-> NULL, reads |-> {}, roiRead |-> FALSE,
                        airArg |-> NULL,
                        again |-> pc = "calibrated", before |-> <<pre_N, post_N>>]
            /\ UNCHANGED <<hostVars, statics, prev, others>>
       ELSE \/ \* PR_MakeRelativeArr returns NULL
               /\ pc' = "failed"
               /\ Tarr' = NULL
               /\ call' = [fn |-> "M6_ModelInit", res |-> FALSE, step |-> "alloc",
                           wTac |-> NULL, reads |-> {}, roiRead |-> FALSE,
                           airArg |-> NULL,
                           again |-> pc = "calibrated",
                           before |-> <<pre_N, post_N>>]
               /\ UNCHANGED <<hostVars, AirThresh, WhiteMatterNorm, SkipTimes,
                              wNumTms, pre_N, post_N, prev, others>>
            \/ LET skip == Trunc(M6_FreeParm[1])
                   wN   == NumTms - skip
               IN  \E inb \in GlobalSamples(PASS_START,
                                              Min2(NumTms, PASS_START + wN) - 1),
                      oob \in [NumTms .. PASS_START + wN - 1 -> Samples],
                      RoiTac \in (IF NumRoiTac = 1 THEN RoiCurves(NumTms) ELSE {NULL}),
                      Integral \in (IF NumRoiTac = 1 THEN UninitDoubles ELSE {ZERO}) :
                   LET wTac  == CalTac(inb, oob, NumTms, wN)
                       SA    == wTac[0]
                       SB    == wTac[wN - 1]
                       MinSi == CalMinSi(wTac, wN, 1, SA)
                       roiAir ==
                           /\ NumRoiTac = 1
                           /\ IsAir_ByMin([t \in 0 .. NumTms - 1 |-> Abs(RoiTac[t])],
                                          NumTms, RoiAirArg)
                   IN  /\ Tarr' = PR_MakeRelativeArr(AbsTarr, NumTms)
                       /\ AirThresh' = RMul(M6_FreeParm[0], demp_NoiseLevel)
                       /\ SkipTimes' = skip
                       /\ wNumTms' = wN
                       /\ pre_N' = CalPreN(wTac, wN, MinSi,
                                           RMul(D(SA - MinSi), PRE_N_THR), 1)
                       /\ post_N' = CalPostN(wTac, wN, MinSi,
                                             RMul(D(SB - MinSi), POST_N_THR), 1)
                       /\ WhiteMatterNorm' =
                              IF roiAir THEN WhiteMatterNorm
                              ELSE IF NumRoiTac = 1 THEN NormOneRoi(Integral)
                              ELSE NormNoRoi
                       /\ pc' = IF roiAir THEN "failed"
                                ELSE IF pc = "loaded" THEN "calibrated"
                                ELSE "recalibrated"
                       /\ call' = [fn |-> "M6_ModelInit", res |-> ~roiAir,
                                   step |-> IF roiAir THEN "roi_air" ELSE "done",
                                   wTac |-> wTac, reads |-> CalReads(wN),
                                   roiRead |-> NumRoiTac = 1,
                                   airArg |-> IF NumRoiTac = 1 THEN RoiAirArg
                                              ELSE NULL,
                                   again |-> pc = "calibrated",
                                   before |-> <<pre_N, post_N>>]
                       /\ UNCHANGED <<hostVars, prev, others>>

M6_ModelClose ==
    /\ pc \in {"ready", "failed"}
    /\ Tarr' = NULL
    /\ pc' = "closed"
    /\ call' = [fn |-> "M6_ModelClose"]
    /\ UNCHANGED <<hostVars, AirThresh, WhiteMatterNorm, SkipTimes, wNumTms,
                   pre_N, post_N, prev, others>>

\* --------------------------------------------------------- bolus detector
\* position of the bolus peak: the first minimum of wTac
RECURSIVE PeakScan(_, _, _, _, _)
PeakScan(wTac, wN, t, msd, b_peak) ==
    IF t >= wN THEN b_peak
    ELSE IF wTac[t] < msd THEN PeakScan(wTac, wN, t + 1, wTac[t], t)
    ELSE PeakScan(wTac, wN, t + 1, msd, b_peak)

\* the test of the backward loop with >= for >
StartStopsAtCut(x, pre_bl, noise) == ~LtCut(D(x), pre_bl, noise)

\* wTac[b_start-1]>cutoff, with cutoff = pre_bl - noise
StartStops(x, pre_bl, noise) == GtCut(D(x), pre_bl, noise)

\* the backward loop: for ( b_start=b_peak; b_start>pre_N; b_start-- ), the
\* value of b_start when the loop is left and the indices of wTac it read
RECURSIVE StartScan(_, _, _, _, _)
StartScan(wTac, pre_bl, noise, b_start, reads) ==
    IF b_start > pre_N
    THEN LET rd == reads \cup {b_start - 1}
         IN  IF StartStops(wTac[b_start - 1], pre_bl, noise)
             THEN [b_start |-> b_start, reads |-> rd]
             ELSE StartScan(wTac, pre_bl, noise, b_start - 1, rd)
    ELSE [b_start |-> b_start, reads |-> reads]

\* the test of the forward loop without its running maximum
EndStopsNoMax(x, post_bl, mx, noise) == GtCut(D(x), post_bl, noise)

\* (wTac[b_end]>cutoff) || (wTac[b_end]<(mx-noise)), cutoff = post_bl - noise
EndStops(x, post_bl, mx, noise) ==
    GtCut(D(x), post_bl, noise) \/ LtCut(D(x), D(mx), noise)

\* the forward loop: for ( b_end=b_peak+2; b_end<Last; b_end++ ), the value
\* of b_end when the loop is left and the indices of wTac it read
RECURSIVE EndScan(_, _, _, _, _, _, _)
EndScan(wTac, post_bl, noise, Last, b_end, mx, reads) ==
    IF b_end >= Last THEN [b_end |-> b_end, reads |-> reads]
    ELSE LET mx2 == IF wTac[b_end] > mx THEN wTac[b_end] ELSE mx
             rd  == reads \cup {b_end}
         IN  IF EndStops(wTac[b_end], post_bl, mx2, noise)
             THEN [b_end |-> b_end, reads |-> rd]
             ELSE EndScan(wTac, post_bl, noise, Last, b_end + 1, mx2, rd)

\* the forward loop started at the peak itself
EndFirstAtPeak(b_peak) == b_peak

\* b_end = b_peak+2: where the forward loop starts
EndFirst(b_peak) == b_peak + 2

\* the clamp without its bound Last-1
EndClampNoMin(b_end, Last) == b_end - 1

\* b_end = min( b_end-1,Last-1 )
EndClamp(b_end, Last) == Min2(b_end - 1, Last - 1)

\* noise is the square of the double the source passes
FindBolusPosition(wTac, wN, noise, pre_bl, post_bl) ==
    LET b_peak == PeakScan(wTac, wN, 1, wTac[0], 0)
        bwd == StartScan(wTac, pre_bl, noise, b_peak, {})
        Last == wN - post_N
        fwd == EndScan(wTac, post_bl, noise, Last, EndFirst(b_peak), wTac[b_peak], {})
    IN  [b_peak |-> b_peak,
         b_start |-> bwd.b_start,
         b_end |-> EndClamp(fwd.b_end, Last),
         \* indices of wTac the two loops read
         bwdReads |-> bwd.reads,
         fwdReads |-> fwd.reads]

\* ------------------------------------------------------ per-voxel pipeline
\* a double that is a multiple k of a sum of logarithms: k * SUM of
\* w * (-ln r) over the pairs <<r, w>> of terms; the zero sum is k = 0
LinVal(terms, k) ==
    IF IsFinite(k) /\ (terms = {} \/ k = ZERO)
    THEN [terms |-> {}, k |-> ZERO]
    ELSE [terms |-> terms, k |-> k]

\* Intg*WhiteMatterNorm
LinMul(v, x) == LinVal(v.terms, RMul(v.k, x))

\* the conversion without its upper bound
ConcNoUpper(tmp) == IF RGt(tmp, Rat(1, 100)) THEN tmp ELSE ONE

\* the concentration of a corrected sample, as the r of -ln(r):
\* -log(tmp) when 0.01 < tmp < 1, else ZERO = -ln(1)
Conc(tmp) == IF RGt(tmp, Rat(1, 100)) /\ RLt(tmp, ONE) THEN tmp ELSE ONE

\* time each sample of a trapezoidal sum is weighted with, doubled
NodeW(T, n, i) ==
    (IF i > 0 THEN T[i] - T[i - 1] ELSE 0) + (IF i < n - 1 THEN T[i + 1] - T[i] ELSE 0)

RECURSIVE TermW(_, _, _, _, _)
TermW(C, T, n, r, i) ==
    IF i >= n THEN 0
    ELSE (IF C[i] = r THEN NodeW(T, n, i) ELSE 0) + TermW(C, T, n, r, i + 1)

\* trapezoidal integral of the n samples C over the times T
CalculateIntegral(C, T, n) ==
    LET rs == { C[i] : i \in 0 .. n - 1 } \ {ONE}
        ts == { <<r, TermW(C, T, n, r, 0)>> : r \in rs }
    IN  LinVal({ p \in ts : p[2] # 0 }, Rat(1, 2))

\* Write( OutParm,v )
Write(OutParm, v) == Append(OutParm, v)

\* the write made only when the output map is requested
WriteIfRequested(OutParm, v) == IF ParmReq[0] THEN Write(OutParm, v) ELSE OutParm

\* Write( OutParm,Intg*WhiteMatterNorm ): the one write of M6_ModelFunc
WriteResult(OutParm, v) == Write(OutParm, v)

\* the window test with > for >=
WindowRejectedStrict(b_start, b_end) == b_start > b_end

\* xnz( b_start>=b_end )
WindowRejected(b_start, b_end) == b_start >= b_end

\* the value M6_ModelFunc hands to Write
Normalized(Intg) == LinMul(Intg, WhiteMatterNorm)

NoWindow == [b_peak |-> -1, b_start |-> -1, b_end |-> -1,
             bwdReads |-> {}, fwdReads |-> {}]

\* the air test with xz for xnz
AirRejectedInverted(Tac) == ~IsAir_ByMin(Tac, NumTms, VoxelAirArg)

\* xnz( IsAir_ByMin( Tac,AirThresh ))
AirRejected(Tac) == IsAir_ByMin(Tac, NumTms, VoxelAirArg)

\* the correction written through wTac instead of into CorrTac
TacAfterInPlace(Tac, CorrTac, b_start, b_end) ==
    [t \in DOMAIN Tac |->
        IF t - SkipTimes \in b_start .. b_end
        THEN Trunc(CorrTac[t - SkipTimes]) ELSE Tac[t]]

\* the caller's curve when M6_ModelFunc returns: the corrected samples go to
\* the stack buffer CorrTac, Tac itself is only read
TacAfter(Tac, CorrTac, b_start, b_end) == Tac

\* the correction anchored at the first working frame
BaseTimeFirstFrame(wTarr, b_start) == wTarr[0]

\* double b_stime = wTarr[b_start]
BaseTime(wTarr, b_start) == wTarr[b_start]

\* the integral with the whole of Cx handed to CalculateIntegral
IntegralStartZero(b_start) == 0

\* Cx+b_start, wTarr+b_start: where the integrated segment starts
IntegralStart(b_start) == b_start

\* the sample count without the window's last sample
IntegralCountOpen(b_start, b_end) == b_end - b_start

\* b_end-b_start+1: the sample count handed to CalculateIntegral
IntegralCount(b_start, b_end) == b_end - b_start + 1

\* the conversion loop run over all NumTms frames
ConvCountAllFrames(wN) == NumTms

\* for ( int t=0; t<wNumTms; t++ ): how many cells the conversion loop visits
ConvCount(wN) == wN

\* the indices PR_ArrStats( Arr+off,n,.. ) reads, counted from Arr
StatReads(off, n) == off .. off + n - 1

\* the indices of wTac the peak loop of FindBolusPosition reads
PeakReads(wN) == 0 .. wN - 1

\* no index used
NoIdx == [wTac |-> {}, wTarr |-> {}, CorrTac |-> {}, Cx |-> {}]

\* what a cell of the stack buffer CorrTac may hold before the call writes it:
\* whatever an earlier call left there
StackJunk == {ZERO, Rat(1, 2)}

\* one call M6_ModelFunc( Tac,OutParm ) with an empty OutParm: its result, the
\* steps it went through, its locals and what it left in OutParm and Tac.
\* junk is what the cells of CorrTac outside b_start .. b_end hold
VoxelCall(Tac, junk) ==
    IF AirRejected(Tac)
    THEN [fn |-> "M6_ModelFunc", Tac |-> Tac, TacOut |-> Tac, res |-> FALSE,
          airArg |-> VoxelAirArg, idx |-> NoIdx, intgN |-> 0,
          steps |-> <<"air">>, win |-> NoWindow, corrWritten |-> {},
          corrRead |-> {}, CorrTac |-> NULL, Cx |-> NULL,
          Intg |-> LinVal({}, ZERO), OutParm |-> <<>>]
    ELSE
      LET wN      == NumTms - SkipTimes
          wTac    == Shift(Tac, SkipTimes, wN)
          wTarr   == Shift(Tarr, SkipTimes, wN)
          pre_bl  == PR_ArrStats(wTac, 0, pre_N)
          noise   == PR_ArrStatsVar(wTac, 0, pre_N)
          post_bl == PR_ArrStats(wTac, wN - post_N, post_N)
          win     == FindBolusPosition(wTac, wN, noise, pre_bl, post_bl)
          \* the indices of wTac used up to the window test
          found   == StatReads(0, pre_N) \cup StatReads(wN - post_N, post_N)
                       \cup PeakReads(wN) \cup win.bwdReads \cup win.fwdReads
      IN  IF WindowRejected(win.b_start, win.b_end)
          THEN [fn |-> "M6_ModelFunc", Tac |-> Tac, TacOut |-> Tac, res |-> FALSE,
                airArg |-> VoxelAirArg,
                idx |-> [NoIdx EXCEPT !.wTac = found], intgN |-> 0,
                steps |-> <<"air", "baseline", "bolus">>, win |-> win,
                corrWritten |-> {}, corrRead |-> {}, CorrTac |-> NULL,
                Cx |-> NULL, Intg |-> LinVal({}, ZERO), OutParm |-> <<>>]
          ELSE
            LET b_start == win.b_start
                b_end   == win.b_end
                b_stime == BaseTime(wTarr, b_start)
                sf == RDiv(RSub(post_bl, pre_bl), D(wTarr[b_end] - b_stime))
                n == IntegralCount(b_start, b_end)
                \* the first NumTms cells of double CorrTac[DEF_MAXNUMTMS]
                CorrTac == [t \in 0 .. NumTms - 1 |->
                              IF t \in b_start .. b_end
                              THEN RSub(D(wTac[t]), RMul(sf, D(wTarr[t] - b_stime)))
                              ELSE junk]
                S0 == pre_bl
                \* Cx[t] for t outside b_start .. b_end comes from a cell of
                \* CorrTac this call has not written
                Cx == [t \in 0 .. ConvCount(wN) - 1 |-> Conc(RDiv(CorrTac[t], S0))]
                Intg == CalculateIntegral(Shift(Cx, IntegralStart(b_start), n),
                                          Shift(wTarr, b_start, n), n)
            IN  [fn |-> "M6_ModelFunc", Tac |-> Tac, airArg |-> VoxelAirArg,
                 TacOut |-> TacAfter(Tac, CorrTac, b_start, b_end), res |-> TRUE,
                 steps |-> <<"air", "baseline", "bolus", "correct", "convert",
                             "integrate", "write">>,
                 win |-> win, corrWritten |-> b_start .. b_end,
                 corrRead |-> DOMAIN Cx,
                 idx |-> [wTac |-> found \cup (b_start .. b_end),
                          wTarr |-> {b_start, b_end} \cup (b_start .. b_end)
                                      \cup StatReads(b_start, n),
                          CorrTac |-> (b_start .. b_end) \cup DOMAIN Cx,
                          Cx |-> DOMAIN Cx \cup StatReads(IntegralStart(b_start), n)],
                 CorrTac |-> [t \in b_start .. b_end |-> CorrTac[t]],
                 \* the cells of Cx CalculateIntegral is handed
                 Cx |-> [t \in b_start .. b_end |-> Cx[t]],
                 Intg |-> Intg, intgN |-> n,
                 OutParm |-> WriteResult(<<>>, Normalized(Intg))]

M6_ModelFunc ==
    /\ pc = "ready"
    /\ \E Tac \in Curves(NumTms), junk \in StackJunk : call' = VoxelCall(Tac, junk)
    /\ pc' = "voxel_done"
    /\ UNCHANGED <<hostVars, statics, prev, others>>

\* the host takes the result of the call (the calibration's, or a voxel's
\* output) and moves to the next voxel
HostNextVoxel ==
    /\ pc \in {"calibrated", "recalibrated", "voxel_done"}
    /\ pc' = "ready"
    /\ call' = [fn |-> "idle"]
    /\ UNCHANGED <<hostVars, statics, prev, others>>

\* the same step, with the way the voxel just processed ended kept in prev
HostNextVoxelAfter ==
    /\ pc \in {"calibrated", "recalibrated", "voxel_done"}
    /\ pc' = "ready"
    /\ prev' = IF call.fn = "M6_ModelFunc"
               THEN (IF call.res THEN "accepted" ELSE "rejected")
               ELSE prev
    /\ call' = [fn |-> "idle"]
    /\ UNCHANGED <<hostVars, statics, others>>

\* ------------------------------------------------------------ the machine
M0_Unloaded == [pc |-> "unloaded"]

M5_Unloaded == [pc |-> "unloaded"]

Init ==
    /\ pc = "loaded"
    /\ NumTms = MaxNumTms
    /\ \E h \in HostSeries(NumTms) :
          /\ AbsTarr = h.AbsTarr
          /\ demp_NoiseLevel = h.demp_NoiseLevel
          /\ ParmReq = h.ParmReq
    /\ NumRoiTac \in 0 .. 2
    /\ M6_FreeParm \in FreeParms
    /\ AirThresh = ZERO
    /\ WhiteMatterNorm = ZERO
    /\ SkipTimes = 0
    /\ wNumTms = 0
    /\ pre_N = 0
    /\ post_N = 0
    /\ Tarr = NULL
    /\ call = [fn |-> "none"]
    /\ prev = "none"
    /\ m0 = M0_Unloaded
    /\ m5 = M5_Unloaded

Next ==
    \/ M6_ModelInit
    \/ M6_ModelFunc
    \/ HostNextVoxel
    \/ M6_ModelClose

Spec == Init /\ [][Next]_vars

\* the same machine on the series without ROI curves, with the outcome of
\* each voxel remembered while the next one is processed
InitSeq == Init /\ NumRoiTac = 0

NextSeq ==
    \/ M6_ModelInit
    \/ M6_ModelFunc
    \/ HostNextVoxelAfter
    \/ M6_ModelClose

SpecSeq == InitSeq /\ [][NextSeq]_vars

\* ---------------------------------------------- Model 5: time of active rise
\* what the models other than Model 0 and Model 5 hold while one of those runs
m6vars == <<pc, NumRoiTac, M6_FreeParm, demp_NoiseLevel, statics, call, prev>>

\* Model 6 not loaded
M6_Unloaded ==
    /\ pc = "unloaded"
    /\ NumRoiTac = 0
    /\ M6_FreeParm = [i \in 0 .. 1 |-> IF i = 0 THEN D(20) ELSE D(0)]
    /\ AirThresh = ZERO
    /\ WhiteMatterNorm = ZERO
    /\ SkipTimes = 0
    /\ wNumTms = 0
    /\ pre_N = 0
    /\ post_N = 0
    /\ Tarr = NULL
    /\ call = [fn |-> "none"]
    /\ prev = "none"

\* the value the framework uses for "no result"; no time and no slope equals it
VOIDVOX == <<0, -1>>

\* M5_FreeParm: the low and the high threshold fraction; the defaults, and
\* a high fraction above the peak (the code does not enforce ThrKoffB < 1)
M5_FreeParms ==
    { [i \in 0 .. 1 |-> IF i = 0 THEN Rat(1, 5) ELSE hi] :
        hi \in {Rat(19, 20), Rat(6, 5)} }

\* the signal-to-concentration conversions the user may select
ConcTypes == {"NOCONV", "DELTA"}

\* funcSigToConc( Signal,NumTms,Cnc,1,&ConvBase ): the signal itself, or its
\* change against the first frame
funcSigToConc(Signal, n, ConcType) ==
    [t \in 0 .. n - 1 |->
        IF ConcType = "NOCONV" THEN D(Signal[t]) ELSE D(Signal[t] - Signal[0])]

\* FindMaxVal( Y,N,&Tmax ): the largest value and the first index holding it
FindMaxVal(Y, N) ==
    LET inx == CHOOSE i \in 0 .. N - 1 :
                   /\ \A j \in 0 .. N - 1 : ~RLt(Y[i], Y[j])
                   /\ \A j \in 0 .. i - 1 : RLt(Y[j], Y[i])
    IN  [val |-> Y[inx], Tmax |-> inx]

\* FindThresholdTime( Y,N,Thr,true,X ): the time at which the rising curve
\* first reaches Thr, interpolated between the frames around the crossing;
\* VOIDVOX when no frame reaches it
FindThresholdTime(Y, N, Thr, X) ==
    LET hits == { i \in 0 .. N - 1 : ~RLt(Y[i], Thr) }
    IN  IF hits = {} THEN VOIDVOX
        ELSE LET i == CHOOSE h \in hits : \A j \in hits : h <= j
             IN  IF i = 0 THEN D(X[0])
                 ELSE RAdd(D(X[i - 1]),
                           RDiv(RMul(RSub(Thr, Y[i - 1]), D(X[i] - X[i - 1])),
                                RSub(Y[i], Y[i - 1])))

IsEqual(a, b) == a = b

\* CalcTAR: its result and what it leaves in *pTAR and *pSlope
CalcTAR(Y, X, N, ThrKoffA, ThrKoffB) ==
    LET mx    == FindMaxVal(Y, N)
        ThrA  == RMul(mx.val, ThrKoffA)
        ThrB  == RMul(mx.val, ThrKoffB)
        RiseN == mx.Tmax + 1
        ta    == FindThresholdTime(Y, RiseN, ThrA, X)
        tb    == FindThresholdTime(Y, RiseN, ThrB, X)
    IN  IF ta = VOIDVOX \/ tb = VOIDVOX \/ IsEqual(ta, tb)
        THEN [res |-> FALSE, TAR |-> VOIDVOX, Slope |-> VOIDVOX,
              ta |-> ta, tb |-> tb]
        ELSE [res |-> TRUE, TAR |-> RSub(tb, ta),
              Slope |-> RDiv(RSub(ThrB, ThrA), RSub(tb, ta)),
              ta |-> ta, tb |-> tb]

\* if ( ParmReq[0]) Write( OutParm,TAR ); if ( ParmReq[1]) Write( OutParm,Slope )
M5_WriteOutputs(OutParm, TAR, Slope) ==
    LET o1 == IF ParmReq[0] THEN Write(OutParm, TAR) ELSE OutParm
    IN  IF ParmReq[1] THEN Write(o1, Slope) ELSE o1

\* one call M5_ModelFunc( Signal,OutParm ) with an empty OutParm
M5_Call(Signal, allocOk) ==
    IF ~allocOk
    THEN [fn |-> "M5_ModelFunc", Signal |-> Signal, res |-> FALSE,
          step |-> "alloc", tar |-> [res |-> FALSE], OutParm |-> <<>>]
    ELSE LET Cnc == funcSigToConc(Signal, NumTms, m5.ConcType)
             tar == CalcTAR(Cnc, m5.gTarr, NumTms, m5.RISE_THRA, m5.RISE_THRB)
         IN  IF ~tar.res
             THEN [fn |-> "M5_ModelFunc", Signal |-> Signal, res |-> FALSE,
                   step |-> "CalcTAR", tar |-> tar, OutParm |-> <<>>]
             ELSE [fn |-> "M5_ModelFunc", Signal |-> Signal, res |-> TRUE,
                   step |-> "done", tar |-> tar,
                   OutParm |-> M5_WriteOutputs(<<>>, tar.TAR, tar.Slope)]

M5_ModelInit ==
    /\ m5.pc = "loaded"
    /\ \E gTarr \in {NULL, PR_MakeRelativeArr(AbsTarr, NumTms)} :
          m5' = [m5 EXCEPT !.RISE_THRA = m5.M5_FreeParm[0],
                           !.RISE_THRB = m5.M5_FreeParm[1],
                           !.gTarr = gTarr,
                           !.pc = IF gTarr = NULL THEN "failed" ELSE "ready",
                           !.call = [fn |-> "M5_ModelInit", res |-> gTarr # NULL]]
    /\ UNCHANGED <<m6vars, NumTms, AbsTarr, ParmReq, m0>>

M5_ModelFunc ==
    /\ m5.pc = "ready"
    /\ \E Signal \in Curves(NumTms), allocOk \in BOOLEAN :
          m5' = [m5 EXCEPT !.call = M5_Call(Signal, allocOk), !.pc = "voxel_done"]
    /\ UNCHANGED <<m6vars, NumTms, AbsTarr, ParmReq, m0>>

\* the host takes the voxel's outputs and moves to the next voxel
M5_HostNextVoxel ==
    /\ m5.pc = "voxel_done"
    /\ m5' = [m5 EXCEPT !.call = [fn |-> "idle"], !.pc = "ready"]
    /\ UNCHANGED <<m6vars, NumTms, AbsTarr, ParmReq, m0>>

M5_ModelClose ==
    /\ m5.pc \in {"ready", "failed"}
    /\ m5' = [m5 EXCEPT !.gTarr = NULL, !.pc = "closed",
                        !.call = [fn |-> "M5_ModelClose"]]
    /\ UNCHANGED <<m6vars, NumTms, AbsTarr, ParmReq, m0>>

InitM5 ==
    /\ M6_Unloaded
    /\ NumTms = MaxNumTms
    /\ \E h \in HostSeries(NumTms) :
          AbsTarr = h.AbsTarr /\ demp_NoiseLevel = h.demp_NoiseLevel
    /\ ParmReq \in [0 .. 1 -> BOOLEAN]
    /\ m0 = M0_Unloaded
    /\ \E fp \in M5_FreeParms, ct \in ConcTypes :
          m5 = [pc |-> "loaded", M5_FreeParm |-> fp, ConcType |-> ct,
                RISE_THRA |-> ZERO, RISE_THRB |-> ZERO, gTarr |-> NULL,
                call |-> [fn |-> "none"]]

NextM5 ==
    \/ M5_ModelInit
    \/ M5_ModelFunc
    \/ M5_HostNextVoxel
    \/ M5_ModelClose

SpecM5 == InitM5 /\ [][NextM5]_vars

\* ------------------------------------------------ Model 0: basic measurements
\* M0_FreeParm: "Start Index" and "Length (0=all remaining)"
M0_FreeParms ==
    { [i \in 0 .. 1 |-> IF i = 0 THEN D(0) ELSE D(0)],
      [i \in 0 .. 1 |-> IF i = 0 THEN D(1) ELSE D(3)],
      [i \in 0 .. 1 |-> IF i = 0 THEN Rat(3, 2) ELSE D(0)] }

\* iround( x ) of a double that is not negative: the nearest integer
iround(x) == (2 * x[1] + x[2]) \div (2 * x[2])

\* GetStartEndInx( Start,Length,&gStart,&gEnd ): the segment of Length frames
\* from Start, all remaining frames for Length = 0, kept inside the n frames
GetStartEndInx(Start, Length, n) ==
    LET st == Min2(Start, n - 1)
    IN  [gStart |-> st,
         gEnd |-> IF Length = 0 THEN n - 1 ELSE Min2(st + Length - 1, n - 1)]

\* the outputs of Model 0 the series of the model may request: "Max value",
\* "Value spread" and "Mean value"; the statistics behind the other five
\* (VA_VolCalcRoiInfo) are not modelled
M0_ParmReqs ==
    { r \in [0 .. 7 -> BOOLEAN] : \A i \in {2, 4, 5, 6, 7} : ~r[i] }

\* PR_GetArrMinMax, FindMinVal, FindMaxVal over TP[0 .. NT-1]
M0_MinMax(TP, NT) ==
    [MinSi |-> CHOOSE m \in { TP[i] : i \in 0 .. NT - 1 } :
                   \A i \in 0 .. NT - 1 : ~RLt(TP[i], m),
     MaxSi |-> CHOOSE m \in { TP[i] : i \in 0 .. NT - 1 } :
                   \A i \in 0 .. NT - 1 : ~RLt(m, TP[i])]

RECURSIVE RSum(_, _, _)
RSum(TP, lo, hi) == IF lo > hi THEN ZERO ELSE RAdd(TP[lo], RSum(TP, lo + 1, hi))

\* one call M0_ModelFunc( Signal,OutParm ) with an empty OutParm
M0_Call(Signal, allocOk, volOk) ==
    IF ~allocOk \/ ~volOk
    THEN [fn |-> "M0_ModelFunc", Signal |-> Signal, res |-> FALSE,
          step |-> IF allocOk THEN "vol" ELSE "alloc", OutParm |-> <<>>]
    ELSE LET Tac   == funcSigToConc(Signal, NumTms, m0.ConcType)
             whole == m0.gStart = 0 /\ m0.gEnd = 0
             Start == IF whole THEN 0 ELSE m0.gStart
             End   == IF whole THEN NumTms - 1 ELSE m0.gEnd
             NT    == End - Start + 1
             TP    == [t \in 0 .. NT - 1 |-> Tac[t + Start]]
             mm    == M0_MinMax(TP, NT)
             MeanSi == RDiv(RSum(TP, 0, NT - 1), D(NT))
             o0 == IF ParmReq[0] THEN Write(<<>>, mm.MaxSi) ELSE <<>>
             o1 == IF ParmReq[1] THEN Write(o0, RSub(mm.MaxSi, mm.MinSi)) ELSE o0
             o3 == IF ParmReq[3] THEN Write(o1, MeanSi) ELSE o1
         IN  [fn |-> "M0_ModelFunc", Signal |-> Signal, res |-> TRUE,
              step |-> "done", OutParm |-> o3]

\* the return statement with the local res
M0_InitReturnsRes(res) == res

\* func_exit: return true;
M0_InitReturn(res) == TRUE

M0_ModelInit ==
    /\ m0.pc = "loaded"
    /\ \E T \in {NULL, PR_MakeRelativeArr(AbsTarr, NumTms)} :
          LET inx == GetStartEndInx(iround(m0.M0_FreeParm[0]),
                                    iround(m0.M0_FreeParm[1]), NumTms)
              \* xz( Tarr = ... ) leaves for func_exit before res = true
              res == T # NULL
              ret == M0_InitReturn(res)
          IN  m0' = [m0 EXCEPT !.gStart = inx.gStart, !.gEnd = inx.gEnd,
                               !.Tarr = T,
                               !.pc = IF ret THEN "ready" ELSE "failed",
                               !.call = [fn |-> "M0_ModelInit", res |-> ret,
                                         made |-> T # NULL]]
    /\ UNCHANGED <<m6vars, NumTms, AbsTarr, ParmReq, m5>>

M0_ModelFunc ==
    /\ m0.pc = "ready"
    /\ \E Signal \in Curves(NumTms), allocOk \in BOOLEAN, volOk \in BOOLEAN :
          m0' = [m0 EXCEPT !.call = M0_Call(Signal, allocOk, volOk),
                           !.pc = "voxel_done"]
    /\ UNCHANGED <<m6vars, NumTms, AbsTarr, ParmReq, m5>>

\* the host takes the voxel's outputs and moves to the next voxel
M0_HostNextVoxel ==
    /\ m0.pc = "voxel_done"
    /\ m0' = [m0 EXCEPT !.call = [fn |-> "idle"], !.pc = "ready"]
    /\ UNCHANGED <<m6vars, NumTms, AbsTarr, ParmReq, m5>>

M0_ModelClose ==
    /\ m0.pc \in {"ready", "failed"}
    /\ m0' = [m0 EXCEPT !.Tarr = NULL, !.pc = "closed",
                        !.call = [fn |-> "M0_ModelClose"]]
    /\ UNCHANGED <<m6vars, NumTms, AbsTarr, ParmReq, m5>>

InitM0 ==
    /\ M6_Unloaded
    /\ NumTms = MaxNumTms
    /\ \E h \in HostSeries(NumTms) :
          AbsTarr = h.AbsTarr /\ demp_NoiseLevel = h.demp_NoiseLevel
    /\ ParmReq \in M0_ParmReqs
    /\ m5 = M5_Unloaded
    /\ \E fp \in M0_FreeParms, ct \in ConcTypes :
          m0 = [pc |-> "loaded", M0_FreeParm |-> fp, ConcType |-> ct,
                gStart |-> 0, gEnd |-> 0, Tarr |-> NULL,
                call |-> [fn |-> "none"]]

NextM0 ==
    \/ M0_ModelInit
    \/ M0_ModelFunc
    \/ M0_HostNextVoxel
    \/ M0_ModelClose

SpecM0 == InitM0 /\ [][NextM0]_vars

\* ------------------------------------------------------------- the claims
IsVoxel == call.fn = "M6_ModelFunc"

IsInit == call.fn = "M6_ModelInit"

\* the voxel call went as far as bolus detection
Detected == IsVoxel /\ Len(call.steps) >= 3

\* workingLength of a voxel call
wLen == NumTms - SkipTimes

\* the calibrated windows leave room for a bolus
ValidWindows == 0 < pre_N /\ 0 < post_N /\ pre_N + post_N < wLen

\* the working samples of the voxel call are all equal
FlatVoxel ==
    IsVoxel /\ \A t \in SkipTimes .. NumTms - 1 : call.Tac[t] = call.Tac[SkipTimes]

\* C1 (as claimed): whenever FindBolusPosition has run on a voxel under valid
\* calibrated windows, the start it returns is at or after pre_N, wherever the
\* curve's minimum lies.
C1_StartNotInPreWindow == (Detected /\ ValidWindows) => call.win.b_start >= pre_N

\* C2: whenever FindBolusPosition has run on a voxel, the end it returns lies
\* before workingLength - post_N, and so does every index its forward scan read.
C2_EndBeforePostWindow ==
    Detected =>
        /\ call.win.b_end < wLen - post_N
        /\ \A t \in call.win.fwdReads : 0 <= t /\ t < wLen - post_N

\* a detection, under valid windows, whose peak + 2 is at or past workingLength - post_N
C2_Witness ==
    Detected /\ ValidWindows /\ call.win.b_peak + 2 >= wLen - post_N

\* C3 (as claimed): a voxel whose working samples are all equal is rejected
\* under valid calibrated windows: the call fails, and when the detector ran
\* its window has start >= end.
C3_FlatVoxelRejected ==
    (FlatVoxel /\ ValidWindows) =>
        /\ ~call.res
        /\ Detected => call.win.b_start >= call.win.b_end

\* C4: when the detector returns start >= end the call fails right after
\* detection (no correction, conversion or integration, nothing written), and
\* when it returns start < end the call runs to its end and succeeds.
C4_RejectIffEmptyWindow ==
    Detected =>
        IF call.win.b_start >= call.win.b_end
        THEN /\ ~call.res
             /\ call.steps = <<"air", "baseline", "bolus">>
             /\ call.corrWritten = {} /\ call.corrRead = {}
             /\ call.OutParm = <<>>
        ELSE /\ call.res
             /\ call.steps[Len(call.steps)] = "write"

\* a voxel whose detected window is a single point
C4_Witness == Detected /\ ValidWindows /\ call.win.b_start = call.win.b_end

\* C5: a voxel the background classifier calls air fails at once: no baseline
\* estimation, no detection, no correction, no integration, nothing written.
C5_AirShortCircuits ==
    (IsVoxel /\ IsAir_ByMin(call.Tac, NumTms, AirThresh)) =>
        /\ ~call.res
        /\ call.steps = <<"air">>
        /\ call.win = NoWindow
        /\ call.OutParm = <<>>

\* an air voxel has been processed under valid windows
C5_Witness == IsVoxel /\ ValidWindows /\ IsAir_ByMin(call.Tac, NumTms, AirThresh)

\* C6: with more than one white-matter ROI, M6_ModelInit fails and leaves
\* pre_N, post_N, the normalization factor and every other static as they
\* were, having read neither the global curve nor a ROI curve.
C6_TooManyRoisAborts ==
    (IsInit /\ NumRoiTac > 1) =>
        /\ ~call.res /\ pc = "failed"
        /\ pre_N = 0 /\ post_N = 0 /\ WhiteMatterNorm = ZERO
        /\ wNumTms = 0 /\ Tarr = NULL
        /\ call.reads = {} /\ ~call.roiRead

\* M6_ModelInit has returned for a series with two ROI curves
C6_Witness == IsInit /\ NumRoiTac = 2

\* C7 (as claimed): after a successful M6_ModelInit (here one whose scan stayed
\* inside the global curve), 0 < pre_N < workingLength, 0 < post_N <
\* workingLength and pre_N + post_N < workingLength.
C7_SuccessfulInitLeavesRoom ==
    (IsInit /\ call.res /\ call.reads \subseteq 0 .. NumTms - 1) =>
        /\ 0 < pre_N /\ pre_N < wNumTms
        /\ 0 < post_N /\ post_N < wNumTms
        /\ pre_N + post_N < wNumTms

\* C8: with no ROI curve, a successful calibration leaves the normalization
\* factor at exactly 1, and what an accepted voxel writes is its integral.
C8_NoRoiWritesRawIntegral ==
    (NumRoiTac = 0 /\ pc \in {"calibrated", "ready", "voxel_done"}) =>
        /\ WhiteMatterNorm = ONE
        /\ (IsVoxel /\ call.res) => call.OutParm = <<call.Intg>>

\* an accepted voxel with a nonzero integral, no ROI curve supplied
C8_Witness ==
    NumRoiTac = 0 /\ IsVoxel /\ ValidWindows /\ call.res /\ call.Intg.terms # {}

\* C9 (as claimed): with one ROI curve, the normalization factor a successful
\* M6_ModelInit sets is a positive, finite number.
C9_OneRoiNormPositive ==
    (IsInit /\ call.res /\ NumRoiTac = 1) =>
        IsFinite(WhiteMatterNorm) /\ RGt(WhiteMatterNorm, ZERO)

\* C10: a call of M6_ModelFunc, whatever its outcome, leaves pre_N, post_N,
\* SkipTimes, AirThresh, WhiteMatterNorm, wNumTms, Tarr and the host's
\* globals as they were, and returns the caller's curve as it received it.
C10_VoxelCallFrame ==
    [][(pc = "ready" /\ pc' = "voxel_done") =>
          /\ statics' = statics
          /\ hostVars' = hostVars
          /\ call'.TacOut = call'.Tac]_vars

\* an accepted voxel whose baseline correction changed some sample
C10_Witness ==
    /\ IsVoxel /\ ValidWindows /\ call.res
    /\ PR_ArrStats(Shift(call.Tac, SkipTimes, wLen), 0, pre_N)
         # PR_ArrStats(Shift(call.Tac, SkipTimes, wLen), wLen - post_N, post_N)

\* what the host sees of a voxel call: its result and what it wrote
Outcome(c) == [res |-> c.res, OutParm |-> c.OutParm]

\* C11: the outcome of every M6_ModelFunc call (rejected, or the value
\* written) is the one its curve and the calibrated statics determine: it is
\* the same whatever earlier calls left in the stack buffers, whether or not
\* a voxel was processed before it and however that voxel ended.
C11_VoxelsIndependent ==
    IsVoxel => \A j \in StackJunk : Outcome(call) = Outcome(VoxelCall(call.Tac, j))

\* a voxel accepted with a nonzero integral right after a rejected one, its
\* window starting past cells of CorrTac the call did not write
C11_Witness ==
    /\ IsVoxel /\ ValidWindows /\ call.res /\ prev = "rejected"
    /\ call.win.b_start > 0 /\ call.Intg.terms # {}

\* C12 (as claimed): a second run of M6_ModelInit on the same global curve,
\* frame count and free parameters that gets as far as the window scans
\* leaves the pair (pre_N, post_N) the first run left.
C12_CalibrationIdempotent ==
    (IsInit /\ call.again /\ call.step \in {"done", "roi_air"}) =>
        <<pre_N, post_N>> = call.before

\* the same for the runs whose scan stays inside the global curve
C12_InBoundsIdempotent ==
    (IsInit /\ call.again /\ call.step \in {"done", "roi_air"}
       /\ call.reads \subseteq 0 .. NumTms - 1) =>
        <<pre_N, post_N>> = call.before

\* the working curve of the voxel call, its pre-bolus mean and the square of
\* its pre-bolus noise
vTac == Shift(call.Tac, SkipTimes, wLen)

preMean == PR_ArrStats(vTac, 0, pre_N)

preVar == PR_ArrStatsVar(vTac, 0, pre_N)

\* x <= preMean - noise
AtOrBelowCut(x) == ~GtCut(D(x), preMean, preVar)

\* the detector ran, under valid windows, on a curve with a single dip: its
\* minimum is taken once, at an index p with pre_N < p < workingLength -
\* post_N, and the samples next to it are at or below preMean - noise
ClearDip ==
    /\ Detected /\ ValidWindows
    /\ LET p == call.win.b_peak
       IN  /\ \A t \in 0 .. wLen - 1 : t # p => vTac[t] > vTac[p]
           /\ pre_N < p /\ p < wLen - post_N
           /\ AtOrBelowCut(vTac[p - 1]) /\ AtOrBelowCut(vTac[p + 1])

\* C13 (as claimed): on every curve with a single clear dip between the
\* baseline windows the detector returns start < peak < end.
C13_DipBracketed ==
    ClearDip => /\ call.win.b_start < call.win.b_peak
                /\ call.win.b_peak < call.win.b_end

\* C13 (amended): on every curve with a single clear dip whose minimum and
\* the sample after it both lie between the baseline windows (peak + 1 <
\* workingLength - post_N) the detector returns start < peak < end.
C13_DipBracketedInside ==
    (ClearDip /\ call.win.b_peak + 1 < wLen - post_N) =>
        /\ call.win.b_start < call.win.b_peak
        /\ call.win.b_peak < call.win.b_end

\* a clear dip with the sample after its minimum before the post window
C13_Witness == ClearDip /\ call.win.b_peak + 1 < wLen - post_N

\* C14: a M6_ModelFunc call that returns success has written exactly one
\* value, its integral times WhiteMatterNorm, and one that returns failure
\* has written nothing, whether or not ParmReq[0] is set.
C14_OneWriteOnSuccess ==
    IsVoxel =>
        IF call.res
        THEN call.OutParm = <<LinMul(call.Intg, WhiteMatterNorm)>>
        ELSE call.OutParm = <<>>

\* a voxel accepted while the output map is not requested
C14_Witness == IsVoxel /\ ValidWindows /\ call.res /\ ~ParmReq[0]

\* the smallest element of a set of indices, or none when it is empty
SmallestOr(S, none) ==
    IF S = {} THEN none ELSE CHOOSE i \in S : \A j \in S : i <= j

\* curve[i] - MinSi < 0.95*(ref - MinSi) on the calibration curve of the
\* M6_ModelInit call
BelowDrop(i, ref) ==
    LET MinSi == MinRange(call.wTac, 0, wNumTms - 1)
    IN  RLt(D(call.wTac[i] - MinSi), RMul(Rat(95, 100), D(ref - MinSi)))

\* C17: a run of M6_ModelInit that gets to the window scans leaves pre_N =
\* the smallest i >= 1 with curve[i] - MinSi < 0.95*(SA - MinSi) and post_N =
\* the smallest k >= 1 with curve[last - k] - MinSi < 0.95*(SB - MinSi), each
\* workingLength when there is no such index below workingLength.
C17_CalibrationWindows ==
    (IsInit /\ call.step \in {"done", "roi_air"}) =>
        LET last == wNumTms - 1
            SA == call.wTac[0]
            SB == call.wTac[last]
        IN  /\ pre_N = SmallestOr({ i \in 1 .. last : BelowDrop(i, SA) }, wNumTms)
            /\ post_N = SmallestOr({ k \in 1 .. last : BelowDrop(last - k, SB) },
                                   wNumTms)

\* a successful calibration whose forward scan went past index 1 before it
\* found a sample below its threshold and whose backward scan found one at
\* its second step
C17_Witness ==
    /\ IsInit /\ call.res
    /\ 1 < pre_N /\ pre_N < wNumTms /\ post_N = 2

\* the largest element of a nonempty set of indices
LargestOf(S) == CHOOSE i \in S : \A j \in S : j <= i

\* index of the global minimum of the working curve, the first one on ties
FirstMinimum ==
    SmallestOr({ t \in 0 .. wLen - 1 : \A u \in 0 .. wLen - 1 : vTac[t] <= vTac[u] },
               -1)

postMean == PR_ArrStats(vTac, wLen - post_N, post_N)

\* the largest of the samples working[lo .. hi]
MaxOf(lo, hi) ==
    CHOOSE m \in { vTac[u] : u \in lo .. hi } : \A u \in lo .. hi : vTac[u] <= m

\* working[t] > postMean - noise
AbovePostCut(t) == GtCut(D(vTac[t]), postMean, preVar)

\* working[t] < mx - noise, mx the largest sample scanned up to and with t
BelowRunningMax(t) ==
    LtCut(D(vTac[t]), D(MaxOf(call.win.b_peak + 2, t)), preVar)

lastAllowed == wLen - post_N

\* the first scanned index at which the forward search stops
stopIndex ==
    SmallestOr({ t \in call.win.b_peak + 2 .. lastAllowed - 1 :
                   AbovePostCut(t) \/ BelowRunningMax(t) },
               lastAllowed)

\* C19: the end the detector returns is min(stopIndex - 1, lastAllowed - 1),
\* stopIndex being the first t in peak + 2 .. lastAllowed - 1 with working[t] >
\* postMean - noise or working[t] < mx - noise (lastAllowed if there is none).
C19_ForwardEndSearch ==
    Detected => call.win.b_end = Min2(stopIndex - 1, lastAllowed - 1)

\* the forward search was stopped before lastAllowed by a sample below the
\* running maximum that is not above postMean - noise
C19_Witness ==
    /\ Detected /\ ValidWindows
    /\ stopIndex < lastAllowed /\ ~AbovePostCut(stopIndex)

\* time[t] - time[start] on the working time axis
SinceStart(t) == D(Tarr[t + SkipTimes] - Tarr[call.win.b_start + SkipTimes])

\* (postMean - preMean)/(time[end] - time[start])
slope == RDiv(RSub(postMean, preMean), SinceStart(call.win.b_end))

\* the working curve runs in a straight line from preMean at start to
\* postMean at end
LinearOverWindow ==
    \A t \in call.win.b_start .. call.win.b_end :
        D(vTac[t]) = RAdd(preMean, RMul(slope, SinceStart(t)))

\* C20: in an accepted voxel call, corrected[t] = working[t] - slope*(time[t]
\* - time[start]) for every t in [start, end]; corrected[start] =
\* working[start]; and when the working curve is exactly linear from preMean
\* at start to postMean at end, every corrected sample equals preMean.
C20_BaselineCorrection ==
    (IsVoxel /\ call.res) =>
        /\ DOMAIN call.CorrTac = call.win.b_start .. call.win.b_end
        /\ \A t \in call.win.b_start .. call.win.b_end :
              call.CorrTac[t] = RSub(D(vTac[t]), RMul(slope, SinceStart(t)))
        /\ call.CorrTac[call.win.b_start] = D(vTac[call.win.b_start])
        /\ LinearOverWindow =>
              \A t \in call.win.b_start .. call.win.b_end : call.CorrTac[t] = preMean

\* an accepted voxel whose working curve is exactly linear over its window,
\* between two different baselines
C20_Witness ==
    /\ IsVoxel /\ ValidWindows /\ call.res
    /\ LinearOverWindow /\ preMean # postMean

\* a M5_ModelFunc call in which CalcTAR found a crossing missing or the two
\* crossing times equal
M5_NoRise == m5.call.fn = "M5_ModelFunc" /\ m5.call.step = "CalcTAR"

\* what a call that emits VOIDVOX for each requested output leaves in OutParm
M5_VoidOutputs ==
    (IF ParmReq[0] THEN <<VOIDVOX>> ELSE <<>>) \o
    (IF ParmReq[1] THEN <<VOIDVOX>> ELSE <<>>)

\* C15 (as claimed): when a threshold crossing is not found in Y[0..Tmax] or
\* the two crossing times are equal, M5_ModelFunc has written VOIDVOX for
\* each requested output.
C15_NoRiseEmitsVoid == M5_NoRise => m5.call.OutParm = M5_VoidOutputs

\* what the code does in that case: CalcTAR sets both of its results to
\* VOIDVOX, and M5_ModelFunc fails without writing anything
C15_NoRiseWritesNothing ==
    M5_NoRise =>
        /\ m5.call.tar.TAR = VOIDVOX /\ m5.call.tar.Slope = VOIDVOX
        /\ ~m5.call.res /\ m5.call.OutParm = <<>>

\* M0_ModelInit has returned and PR_MakeRelativeArr had failed in it
M0_InitAllocFailed == m0.call.fn = "M0_ModelInit" /\ ~m0.call.made

\* C16 (as claimed): when PR_MakeRelativeArr fails, M0_ModelInit returns
\* false.
C16_InitFailsOnAllocFailure == M0_InitAllocFailed => ~m0.call.res

\* what the code does: M0_ModelInit returns true whether or not the relative
\* time array was created
C16_InitAlwaysTrue == m0.call.fn = "M0_ModelInit" => m0.call.res

\* corrected[t]/preMean
ratio(t) == RDiv(call.CorrTac[t], preMean)

\* 0.01 < ratio < 1.0, both bounds exclusive
InsideClamp(r) == RGt(r, Rat(1, 100)) /\ RLt(r, ONE)

\* a concentration -ln(r), held as r, is not negative: 0 < r <= 1
NotNegative(c) == RGt(c, ZERO) /\ ~RGt(c, ONE)

SeriesAirThreshold == RMul(M6_FreeParm[0], demp_NoiseLevel)

\* the call invoked the background classifier: every voxel call does, and a
\* calibration that got as far as checking its one ROI curve
ClassifierInvoked == IsVoxel \/ (IsInit /\ call.roiRead)

\* C22 (as claimed): every invocation of the background classifier, per voxel
\* and on the reference curve, passes backgroundMultiplier * seriesNoiseLevel.
C22_ClassifierThreshold == ClassifierInvoked => call.airArg = SeriesAirThreshold

\* the per-voxel invocation passes backgroundMultiplier * seriesNoiseLevel
C22_VoxelThreshold == IsVoxel => call.airArg = SeriesAirThreshold

\* a run of M6_ModelInit that scanned the calibration curve
Scanned == IsInit /\ call.step \in {"done", "roi_air"}

\* C23 (as claimed): calibration reads only samples of the global curve at
\* indices in [0, NumTms), for every skip count 0 <= SkipTimes < NumTms.
C23_CalibrationReadsInBounds ==
    (Scanned /\ 0 <= SkipTimes /\ SkipTimes < NumTms) =>
        call.reads \subseteq 0 .. NumTms - 1

\* the scan stays within the global curve once SkipTimes >= PASS_START
C23_InBoundsFromPassStart ==
    (Scanned /\ PASS_START <= SkipTimes /\ SkipTimes < NumTms) =>
        call.reads \subseteq 0 .. NumTms - 1

\* C24 (as claimed): every cell of the corrected buffer that the concentration
\* conversion of an accepted voxel call reads was written by the baseline
\* correction of that call: it reads no cell outside [start, end].
C24_ConversionReadsWritten ==
    (IsVoxel /\ call.res) =>
        /\ call.corrWritten = call.win.b_start .. call.win.b_end
        /\ call.corrRead \subseteq call.corrWritten

\* the cells CalculateIntegral is handed come from cells the call has written
C24_IntegratedCellsWritten ==
    (IsVoxel /\ call.res) => DOMAIN call.Cx \subseteq call.corrWritten

\* the minimum of the calibration curve of the M6_ModelInit call, and the
\* indices at which the curve takes it
calMin == MinRange(call.wTac, 0, wNumTms - 1)

calMinAt == { t \in 0 .. wNumTms - 1 : call.wTac[t] = calMin }

\* the first and the last sample of the calibration curve lie strictly above
\* its minimum
EndsAboveMin ==
    /\ Scanned
    /\ call.wTac[0] > calMin
    /\ call.wTac[wNumTms - 1] > calMin

\* C25: when the first and the last sample of the calibration curve are
\* strictly greater than its minimum, the calibrated windows do not overlap:
\* pre_N <= index of the first minimum, post_N <= workingLength - 1 - index
\* of the last minimum, and pre_N + post_N <= workingLength - 1.
C25_WindowsDoNotOverlap ==
    EndsAboveMin =>
        /\ pre_N <= SmallestOr(calMinAt, -1)
        /\ post_N <= wNumTms - 1 - LargestOf(calMinAt)
        /\ pre_N + post_N <= wNumTms - 1

\* a calibration on a curve above its minimum at both ends whose windows
\* reach the minimum from both sides: pre_N + post_N = workingLength - 1
C25_Witness ==
    /\ EndsAboveMin
    /\ pre_N = SmallestOr(calMinAt, -1)
    /\ post_N = wNumTms - 1 - LargestOf(calMinAt)
    /\ pre_N + post_N = wNumTms - 1

\* what the index-safety claim assumes of the calibration
IndexPre ==
    /\ 0 <= SkipTimes /\ SkipTimes < NumTms
    /\ 1 <= pre_N /\ pre_N <= wLen
    /\ 1 <= post_N /\ post_N <= wLen

\* C26: for 0 <= SkipTimes < NumTms and 1 <= pre_N, post_N <= workingLength,
\* every index a voxel call uses into the working curve, the working time axis
\* and the corrected and concentration buffers lies in [0, workingLength); the
\* backward scan reads only indices >= pre_N, the forward scan only indices <
\* workingLength - post_N; and an accepted window has 0 <= start < end <=
\* workingLength - 2.
C26_IndexSafety ==
    (IsVoxel /\ IndexPre) =>
        /\ call.idx.wTac \cup call.idx.wTarr \cup call.idx.CorrTac \cup call.idx.Cx
              \subseteq 0 .. wLen - 1
        /\ \A i \in call.win.bwdReads : i >= pre_N
        /\ \A i \in call.win.fwdReads : i < wLen - post_N
        /\ call.res =>
              /\ 0 <= call.win.b_start
              /\ call.win.b_start < call.win.b_end
              /\ call.win.b_end <= wLen - 2

\* an accepted voxel on a shortened working curve whose backward scan went
\* down to pre_N and whose window ends at workingLength - 2
C26_Witness ==
    /\ IsVoxel /\ IndexPre /\ call.res /\ SkipTimes > 0
    /\ pre_N \in call.win.bwdReads
    /\ call.win.b_end = wLen - 2

\* the voxel call reached its call of CalculateIntegral
Integrated == IsVoxel /\ \E i \in DOMAIN call.steps : call.steps[i] = "integrate"

\* C27: every call of CalculateIntegral that a voxel call makes passes the
\* sample count end - start + 1, and that count is at least 2: the length-1
\* case is never handed to the integrator.
C27_IntegralNotDegenerate ==
    Integrated =>
        /\ call.intgN = call.win.b_end - call.win.b_start + 1
        /\ call.intgN >= 2

\* a voxel integrated over the shortest window there is: two samples
C27_Witness == Integrated /\ ValidWindows /\ call.intgN = 2

====
